---- MODULE Spec2Model ----
(***************************************************************************)
(* FAT12 image reader (rs-fat12-reader): boot sector offsets, the packed   *)
(* 12-bit FAT codec, root directory lookup, the cluster chain walk and the *)
(* extraction pipeline of main.                                            *)
(*                                                                         *)
(* Bytes are integers 0..255; a buffer is a sequence of bytes, buffer byte *)
(* at (0-based) offset o is buf[o + 1].                                    *)
(***************************************************************************)
EXTENDS Integers, Sequences, FiniteSets, TLC

VARIABLES
    image,            \* the disk image: the bytes of the opened File
    overflow_checks,  \* build profile: TRUE = arithmetic overflow panics, FALSE = wraps
    file_name,        \* second CLI argument, as bytes
    pc,               \* position of main / read_entry_content
    position,         \* the File's cursor
    boot_sector,      \* BootSector read by read_boot_sector
    fat,              \* Fat.entries
    root_directory,   \* Directory.entries
    kernel_entry,     \* index into root_directory of the entry found (0: none yet)
    current_cluster,  \* read_entry_content: current_cluster
    accumulator,      \* read_entry_content: accumulator
    kernel_binary,    \* main: the bytes read_entry_content returned
    outcome,          \* how the run ended ("running" while it has not)
    reads,            \* history: every read_buffer call, [stage, offset, size, ok]
    decoded,          \* history: every value Fat::get_entry returned to the walk
    clusters,         \* history: every cluster passed to get_cluster_start
    u_in,             \* argument record of the function under unit check
    u_out,            \* its result
    u_pc              \* "call" before, "ret" after

vars == <<image, overflow_checks, file_name, pc, position, boot_sector, fat,
          root_directory, kernel_entry, current_cluster, accumulator,
          kernel_binary, outcome, reads, decoded, clusters, u_in, u_out, u_pc>>

pipeline_vars == <<image, overflow_checks, file_name, pc, position, boot_sector, fat,
                   root_directory, kernel_entry, current_cluster, accumulator,
                   kernel_binary, outcome, reads, decoded, clusters>>

unit_vars == <<u_in, u_out, u_pc>>

(***************************************************************************)
(* Machine arithmetic                                                      *)
(***************************************************************************)
Pow2(n) == 2 ^ n

U8_MOD == 256

U16_MOD == 65536

Min(a, b) == IF a < b THEN a ELSE b

\* bitwise AND of two naturals
RECURSIVE BitAnd(_, _)
BitAnd(a, b) ==
    IF a = 0 \/ b = 0 THEN 0
    ELSE (a % 2) * (b % 2) + 2 * BitAnd(a \div 2, b \div 2)

\* u8 << c  (bits shifted out of the byte are dropped)
ShlU8(x, c) == (x * Pow2(c)) % U8_MOD

\* u8 >> c, u16 >> c
Shr(x, c) == x \div Pow2(c)

\* u16 * u16 and u16 + u16 as a wrapping build computes them
WrappingMulU16(a, b) == (a * b) % U16_MOD

WrappingAddU16(a, b) == (a + b) % U16_MOD

\* u16 - u16 as a wrapping build computes it
WrappingSubU16(a, b) == (a - b + U16_MOD) % U16_MOD

\* little-endian u16 / u32 field at 0-based offset off
LE16(buf, off) == buf[off + 1] + 256 * buf[off + 2]

LE32(buf, off) == LE16(buf, off) + 65536 * LE16(buf, off + 2)

Bytes(buf, off, n) == [k \in 1..n |-> buf[off + k]]

(***************************************************************************)
(* BootSector                                                              *)
(***************************************************************************)
\* size_of::<BootSector>() under repr(C, packed)
BootSectorSize == 61

\* size_of::<DirectoryEntry>() under repr(C, packed)
DirectoryEntrySize == 32

\* read_unaligned of the packed struct: each field at its declared offset
ParseBootSector(buf) ==
    [ jump_instruction     |-> Bytes(buf, 0, 3),
      oem_id               |-> Bytes(buf, 3, 8),
      bytes_per_sector     |-> LE16(buf, 11),
      sectors_per_cluster  |-> buf[13 + 1],
      reserved_sectors     |-> LE16(buf, 14),
      fat_count            |-> buf[16 + 1],
      root_entries         |-> LE16(buf, 17),
      sector_count         |-> LE16(buf, 19),
      media_descriptor     |-> buf[21 + 1],
      sectors_per_fat      |-> LE16(buf, 22),
      sectors_per_cylinder |-> LE16(buf, 24),
      heads_count          |-> LE16(buf, 26),
      hidden_sectors_count |-> LE32(buf, 28),
      large_sector_count   |-> LE32(buf, 32),
      drive_number         |-> buf[36 + 1],
      reserved             |-> buf[37 + 1],
      volume_id            |-> LE32(buf, 38),
      volume_label         |-> Bytes(buf, 42, 11),
      system_id            |-> Bytes(buf, 53, 8) ]

get_fat_start(bs) == WrappingMulU16(bs.reserved_sectors, bs.bytes_per_sector)

get_fat_start_overflows(bs) == bs.reserved_sectors * bs.bytes_per_sector >= U16_MOD

get_fat_size(bs) == WrappingMulU16(bs.sectors_per_fat, bs.bytes_per_sector)

get_fat_size_overflows(bs) == bs.sectors_per_fat * bs.bytes_per_sector >= U16_MOD

get_root_dir_start(bs) ==
    WrappingAddU16(get_fat_start(bs), WrappingMulU16(get_fat_size(bs), bs.fat_count))

\* some u16 operation of get_root_dir_start overflows (evaluation order of line 47)
get_root_dir_start_overflows(bs) ==
    \/ get_fat_start_overflows(bs)
    \/ get_fat_size_overflows(bs)
    \/ get_fat_size(bs) * bs.fat_count >= U16_MOD
    \/ get_fat_start(bs) + get_fat_size(bs) * bs.fat_count >= U16_MOD

get_root_dir_size(bs) == bs.root_entries * DirectoryEntrySize

get_cluster_region_start(bs) == get_root_dir_start(bs) + get_root_dir_size(bs)

get_cluster_size(bs) == bs.sectors_per_cluster * bs.bytes_per_sector

\* cluster - 2 is a u16 subtraction, widened to usize afterwards
get_cluster_start(bs, cluster) ==
    get_cluster_region_start(bs) + get_cluster_size(bs) * WrappingSubU16(cluster, 2)

get_cluster_start_overflows(bs, cluster) ==
    cluster < 2 \/ get_root_dir_start_overflows(bs)

(***************************************************************************)
(* Fat                                                                     *)
(***************************************************************************)
\* both unchecked accesses of get_entry fall inside entries
Fat_in_bounds(entries, cluster) == (cluster * 3) \div 2 + 1 < Len(entries)

Fat_get_entry_no_shift(entries, cluster) ==
    LET i == (cluster * 3) \div 2
        lsb == entries[i + 1]
        msb == BitAnd(entries[i + 2], Shr(255, 4))
    IN  BitAnd(msb * 256 + lsb, 4095)

Fat_get_entry(entries, cluster) ==
    LET i == (cluster * 3) \div 2
        c == ((cluster * 3) % 2) * 4
        lsb == BitAnd(entries[i + 1], ShlU8(255, c))
        msb == BitAnd(entries[i + 2], Shr(255, 4 - c))
        word == msb * 256 + lsb
    IN  BitAnd(Shr(word, c), 4095)

(***************************************************************************)
(* DirectoryEntry, Directory                                               *)
(***************************************************************************)
ParseDirectoryEntry(buf, off) ==
    [ name                 |-> Bytes(buf, off, 11),
      attributes           |-> buf[off + 11 + 1],
      reserved             |-> buf[off + 12 + 1],
      creation_time_tenths |-> buf[off + 13 + 1],
      creation_time        |-> LE16(buf, off + 14),
      creation_date        |-> LE16(buf, off + 16),
      last_access_date     |-> LE16(buf, off + 18),
      upper_first_cluster  |-> LE16(buf, off + 20),
      last_change_time     |-> LE16(buf, off + 22),
      last_change_date     |-> LE16(buf, off + 24),
      lower_first_cluster  |-> LE16(buf, off + 26),
      file_size            |-> LE32(buf, off + 28) ]

\* Vec::from_raw_parts(ptr as *mut DirectoryEntry, count, count)
ParseDirectory(buf, count) ==
    [k \in 1..count |-> ParseDirectoryEntry(buf, (k - 1) * DirectoryEntrySize)]

\* the loop of Directory::get_entry from index i on; 0 is None, k is Some(entries[k])
RECURSIVE Directory_scan(_, _, _)
Directory_scan(entries, name, i) ==
    IF i > Len(entries) THEN 0
    ELSE IF entries[i].name[1] = 0 THEN 0
    ELSE IF name = entries[i].name THEN i
    ELSE Directory_scan(entries, name, i + 1)

RECURSIVE Directory_scan_no_terminator(_, _, _)
Directory_scan_no_terminator(entries, name, i) ==
    IF i > Len(entries) THEN 0
    ELSE IF name = entries[i].name THEN i
    ELSE Directory_scan_no_terminator(entries, name, i + 1)

Directory_get_entry_no_terminator(entries, name) ==
    Directory_scan_no_terminator(entries, name, 1)

Directory_get_entry_first(entries, name) ==
    IF Directory_scan(entries, name, 1) # 0 THEN Directory_scan(entries, name, 1)
    ELSE IF Len(entries) > 0 THEN 1 ELSE 0

Directory_get_entry(entries, name) == Directory_scan(entries, name, 1)

(***************************************************************************)
(* Names and entries used as inputs                                        *)
(***************************************************************************)
N_FILE == <<70, 73, 76, 69, 32, 32, 32, 32, 84, 88, 84>>

N_KERNEL == <<75, 69, 82, 78, 69, 76, 32, 32, 66, 73, 78>>

\* first byte 0x00: the end-of-directory marker; the other bytes are FILE's
N_END == <<0, 73, 76, 69, 32, 32, 32, 32, 84, 88, 84>>

\* FILE padded with 0x00 instead of spaces
N_FILE_NUL == <<70, 73, 76, 69, 0, 0, 0, 0, 84, 88, 84>>

MkEntry(name, cluster, size) ==
    [ name |-> name, attributes |-> 32, reserved |-> 0, creation_time_tenths |-> 0,
      creation_time |-> 0, creation_date |-> 0, last_access_date |-> 0,
      upper_first_cluster |-> 0, last_change_time |-> 0, last_change_date |-> 0,
      lower_first_cluster |-> cluster, file_size |-> size ]

NoBootSector == [bytes_per_sector |-> 0, sectors_per_cluster |-> 0, reserved_sectors |-> 0,
                 fat_count |-> 0, root_entries |-> 0, sectors_per_fat |-> 0]

(***************************************************************************)
(* File reads                                                              *)
(***************************************************************************)
read_exact_always_ok(len, pos, size) == TRUE

\* File::read_exact succeeds iff size bytes remain after the cursor
read_exact_ok(len, pos, size) == pos + size <= len

\* read_buffer: vec![0; size], filled by read_exact with the bytes that remain
read_buffer(img, pos, size) ==
    [k \in 1..size |-> IF pos + k <= Len(img) THEN img[pos + k] ELSE 0]

\* the File's cursor after read_exact
position_after(len, pos, size) == IF pos >= len THEN pos ELSE Min(len, pos + size)

concat_prepend(acc, buf) == buf \o acc

concat_replace(acc, buf) == buf

\* accumulator = [accumulator, temp_buffer].concat()
concat(acc, buf) == acc \o buf

break_condition_above(cluster) == cluster > 4088

\* if current_cluster >= 0x0FF8 { break; }
break_condition(cluster) == cluster >= 4088

(***************************************************************************)
(* The images the pipeline is run on: a boot sector, fat_count copies of   *)
(* a FAT, a root directory and the data clusters, laid out as the boot     *)
(* sector says, then cut short at some length.                             *)
(***************************************************************************)
\* iterations of the chain walk the model follows
MaxIter == 5

\* data clusters (2, 3, ...) an uncut image holds
DataClusters == 2

U16LE(v) == <<v % 256, v \div 256>>

Zeros(n) == [k \in 1..n |-> 0]

PadTo(q, n) == IF Len(q) >= n THEN q ELSE q \o Zeros(n - Len(q))

EncodeBootSector(g) ==
    <<235, 60, 144>> \o <<77, 83, 87, 73, 78, 52, 46, 49>>
        \o U16LE(g.bytes_per_sector) \o <<g.sectors_per_cluster>>
        \o U16LE(g.reserved_sectors) \o <<g.fat_count>> \o U16LE(g.root_entries)
        \o U16LE(0) \o <<240>> \o U16LE(g.sectors_per_fat)
        \o U16LE(18) \o U16LE(2) \o Zeros(4) \o Zeros(4)
        \o <<0, 0>> \o Zeros(4) \o N_KERNEL \o <<70, 65, 84, 49, 50, 32, 32, 32>>

EncodeDirectoryEntry(e) ==
    e.name \o <<e.attributes, e.reserved, e.creation_time_tenths>>
        \o U16LE(e.creation_time) \o U16LE(e.creation_date) \o U16LE(e.last_access_date)
        \o U16LE(e.upper_first_cluster) \o U16LE(e.last_change_time)
        \o U16LE(e.last_change_date) \o U16LE(e.lower_first_cluster)
        \o U16LE(e.file_size % 65536) \o U16LE(e.file_size \div 65536)

RECURSIVE Flatten(_)
Flatten(qs) == IF qs = <<>> THEN <<>> ELSE Head(qs) \o Flatten(Tail(qs))

\* two 12-bit entries packed into three bytes
PackPair(a, b) == <<a % 256, a \div 256 + (b % 16) * 16, b \div 16>>

EncodeFat(e) == Flatten([p \in 1..(Len(e) \div 2) |-> PackPair(e[2 * p - 1], e[2 * p])])

ClusterData(k, size) == [j \in 1..size |-> (k * 16 + j) % 256]

BuildImage(g, fatEntries, dir) ==
    LET bps == g.bytes_per_sector
        fatCopy == PadTo(EncodeFat(fatEntries), g.sectors_per_fat * bps)
                     \* a FAT of zero sectors holds nothing
        oneFat == SubSeq(fatCopy, 1, g.sectors_per_fat * bps)
    IN  PadTo(EncodeBootSector(g), g.reserved_sectors * bps)
          \o Flatten([c \in 1..g.fat_count |-> oneFat])
          \o Flatten([k \in 1..Len(dir) |-> EncodeDirectoryEntry(dir[k])])
          \o Flatten([k \in 1..DataClusters |-> ClusterData(k + 1, g.sectors_per_cluster * bps)])

Geometries ==
    { [bytes_per_sector |-> 64, sectors_per_cluster |-> 1, reserved_sectors |-> 1,
       fat_count |-> 2, root_entries |-> 2, sectors_per_fat |-> 1],
      [bytes_per_sector |-> 64, sectors_per_cluster |-> 0, reserved_sectors |-> 1,
       fat_count |-> 1, root_entries |-> 2, sectors_per_fat |-> 1],
      [bytes_per_sector |-> 64, sectors_per_cluster |-> 1, reserved_sectors |-> 1,
       fat_count |-> 1, root_entries |-> 2, sectors_per_fat |-> 0] }

\* FAT entries of clusters 2 and 3 (0: free, 1: reserved, 0xFF7: bad, >= 0xFF8: end)
FatValues2 == {0, 1, 2, 3, 4087, 4088, 4095}

FatValues3 == {0, 2, 3, 4088}

StartClusters == {0, 2, 3}

Directories(s) ==
    { <<MkEntry(N_FILE, s, 0), MkEntry(N_END, 0, 0)>>,
      <<MkEntry(N_KERNEL, 2, 70), MkEntry(N_FILE, s, 130)>>,
      <<MkEntry(N_END, 0, 0), MkEntry(N_FILE, s, 64)>> }

FileNames == {N_FILE, N_KERNEL}

\* lengths an image is cut to: inside each region, and whole
CutPoints(g, full) ==
    LET bps == g.bytes_per_sector
        fatStart == g.reserved_sectors * bps
        dirStart == fatStart + g.fat_count * g.sectors_per_fat * bps
        region == dirStart + g.root_entries * DirectoryEntrySize
        cs == g.sectors_per_cluster * bps
    IN  {BootSectorSize - 1, fatStart + 1, dirStart + 1, region + cs - 1, region + cs, full}

Init ==
    /\ u_in = 0 /\ u_out = 0 /\ u_pc = "idle"
    /\ overflow_checks \in BOOLEAN
    /\ file_name \in FileNames
    /\ \E g \in Geometries, f2 \in FatValues2, f3 \in FatValues3, s \in StartClusters :
         \E dir \in Directories(s) :
           LET full == BuildImage(g, <<4080, 4095, f2, f3>>, dir) IN
           \E cut \in CutPoints(g, Len(full)) :
              image = SubSeq(full, 1, Min(cut, Len(full)))
    /\ pc = "read_boot_sector"
    /\ position = 0
    /\ boot_sector = NoBootSector
    /\ fat = <<>>
    /\ root_directory = <<>>
    /\ kernel_entry = 0
    /\ current_cluster = 0
    /\ accumulator = <<>>
    /\ kernel_binary = <<>>
    /\ outcome = "running"
    /\ reads = <<>>
    /\ decoded = <<>>
    /\ clusters = <<>>

(***************************************************************************)
(* main and the functions it calls                                         *)
(***************************************************************************)
ReadRecord(stage, offset, size) ==
    [stage |-> stage, offset |-> offset, size |-> size,
     ok |-> read_exact_ok(Len(image), offset, size)]

\* .expect(...) on an Err, a None, or an arithmetic panic: the process ends with no output
Abort(how) ==
    /\ outcome' = how
    /\ pc' = "exit"

\* read_boot_sector -> read_struct::<BootSector> -> read_buffer at the cursor
ReadBootSector ==
    /\ pc = "read_boot_sector"
    /\ reads' = Append(reads, ReadRecord("read_boot_sector", position, BootSectorSize))
    /\ position' = position_after(Len(image), position, BootSectorSize)
    /\ IF read_exact_ok(Len(image), position, BootSectorSize)
       THEN /\ boot_sector' = ParseBootSector(read_buffer(image, position, BootSectorSize))
            /\ pc' = "read_fat"
            /\ UNCHANGED outcome
       ELSE /\ Abort("Err")
            /\ UNCHANGED boot_sector
    /\ UNCHANGED <<image, overflow_checks, file_name, fat, root_directory, kernel_entry,
                   current_cluster, accumulator, kernel_binary, decoded, clusters, unit_vars>>

ReadFat ==
    /\ pc = "read_fat"
    /\ LET start == get_fat_start(boot_sector)
           size == get_fat_size(boot_sector)
       IN  IF overflow_checks /\ (get_fat_start_overflows(boot_sector)
                                    \/ get_fat_size_overflows(boot_sector))
           THEN /\ Abort("Panic")
                /\ UNCHANGED <<reads, position, fat>>
           ELSE /\ reads' = Append(reads, ReadRecord("read_fat", start, size))
                /\ position' = position_after(Len(image), start, size)
                /\ IF read_exact_ok(Len(image), start, size)
                   THEN /\ fat' = read_buffer(image, start, size)
                        /\ pc' = "read_root_directory"
                        /\ UNCHANGED outcome
                   ELSE /\ Abort("Err")
                        /\ UNCHANGED fat
    /\ UNCHANGED <<image, overflow_checks, file_name, boot_sector, root_directory, kernel_entry,
                   current_cluster, accumulator, kernel_binary, decoded, clusters, unit_vars>>

ReadRootDirectory ==
    /\ pc = "read_root_directory"
    /\ LET start == get_root_dir_start(boot_sector)
           size == get_root_dir_size(boot_sector)
           count == boot_sector.root_entries
       IN  IF overflow_checks /\ get_root_dir_start_overflows(boot_sector)
           THEN /\ Abort("Panic")
                /\ UNCHANGED <<reads, position, root_directory>>
           ELSE /\ reads' = Append(reads, ReadRecord("read_root_directory", start, size))
                /\ position' = position_after(Len(image), start, size)
                /\ IF read_exact_ok(Len(image), start, size)
                   THEN /\ root_directory' = ParseDirectory(read_buffer(image, start, size), count)
                        /\ pc' = "get_entry"
                        /\ UNCHANGED outcome
                   ELSE /\ Abort("Err")
                        /\ UNCHANGED root_directory
    /\ UNCHANGED <<image, overflow_checks, file_name, boot_sector, fat, kernel_entry,
                   current_cluster, accumulator, kernel_binary, decoded, clusters, unit_vars>>

\* root_directory.get_entry(&file_name).expect("Could not find file in image")
GetEntry ==
    /\ pc = "get_entry"
    /\ LET found == Directory_get_entry(root_directory, file_name)
       IN  IF found = 0
           THEN /\ Abort("NotFound")
                /\ UNCHANGED kernel_entry
           ELSE /\ kernel_entry' = found
                /\ pc' = "read_entry_content"
                /\ UNCHANGED outcome
    /\ UNCHANGED <<image, overflow_checks, file_name, position, boot_sector, fat, root_directory,
                   current_cluster, accumulator, kernel_binary, reads, decoded, clusters,
                   unit_vars>>

\* read_entry_content, up to the loop
ReadEntryContent ==
    /\ pc = "read_entry_content"
    /\ current_cluster' = root_directory[kernel_entry].lower_first_cluster
    /\ accumulator' = <<>>
    /\ pc' = "loop_read"
    /\ UNCHANGED <<image, overflow_checks, file_name, position, boot_sector, fat, root_directory,
                   kernel_entry, kernel_binary, outcome, reads, decoded, clusters, unit_vars>>

\* the loop body up to the concat: locate the cluster, seek, read, append
LoopRead ==
    /\ pc = "loop_read"
    /\ Len(clusters) < MaxIter
    /\ clusters' = Append(clusters, current_cluster)
    /\ LET cluster_size == get_cluster_size(boot_sector)
           start == get_cluster_start(boot_sector, current_cluster)
       IN  IF overflow_checks /\ get_cluster_start_overflows(boot_sector, current_cluster)
           THEN /\ Abort("Panic")
                /\ UNCHANGED <<reads, position, accumulator>>
           ELSE /\ reads' = Append(reads, ReadRecord("read_entry_content", start, cluster_size))
                /\ position' = position_after(Len(image), start, cluster_size)
                /\ IF read_exact_ok(Len(image), start, cluster_size)
                   THEN /\ accumulator' = concat(accumulator, read_buffer(image, start, cluster_size))
                        /\ pc' = "loop_next"
                        /\ UNCHANGED outcome
                   ELSE /\ Abort("Err")
                        /\ UNCHANGED accumulator
    /\ UNCHANGED <<image, overflow_checks, file_name, boot_sector, fat, root_directory,
                   kernel_entry, current_cluster, kernel_binary, decoded, unit_vars>>

\* the rest of the loop body with the decoded value v: break and return Ok, or go round
Follow(v) ==
    /\ decoded' = Append(decoded, v)
    /\ current_cluster' = v
    /\ IF break_condition(v)
       THEN /\ kernel_binary' = accumulator
            /\ outcome' = "Ok"
            /\ pc' = "exit"
       ELSE /\ pc' = "loop_read"
            /\ UNCHANGED <<kernel_binary, outcome>>
    /\ UNCHANGED <<image, overflow_checks, file_name, position, boot_sector, fat, root_directory,
                   kernel_entry, accumulator, reads, clusters, unit_vars>>

LoopNext ==
    /\ pc = "loop_next"
    /\ Fat_in_bounds(fat, current_cluster)
    /\ Follow(Fat_get_entry(fat, current_cluster))

\* values an out-of-bounds unwrap_unchecked may yield (after the & 0x0FFF)
UndefinedValues == {0, 2, 4095}

\* get_entry outside the buffer: undefined behaviour, here reading some value
LoopNextUndefinedValue ==
    /\ pc = "loop_next"
    /\ ~Fat_in_bounds(fat, current_cluster)
    /\ \E v \in UndefinedValues : Follow(v)

\* get_entry outside the buffer: undefined behaviour, here ending the process
LoopNextUndefinedCrash ==
    /\ pc = "loop_next"
    /\ ~Fat_in_bounds(fat, current_cluster)
    /\ Abort("Crash")
    /\ UNCHANGED <<image, overflow_checks, file_name, position, boot_sector, fat, root_directory,
                   kernel_entry, current_cluster, accumulator, kernel_binary, reads, decoded,
                   clusters, unit_vars>>

Next ==
    \/ ReadBootSector
    \/ ReadFat
    \/ ReadRootDirectory
    \/ GetEntry
    \/ ReadEntryContent
    \/ LoopRead
    \/ LoopNext
    \/ LoopNextUndefinedValue
    \/ LoopNextUndefinedCrash

Spec == Init /\ [][Next]_vars

\* main is sequential code: whatever step is next is taken
FairSpec == Spec /\ WF_vars(Next)

(***************************************************************************)
(* Unit specifications: one pure function applied to inputs drawn from     *)
(* bounded sets.  The pipeline's variables are idle in them.               *)
(***************************************************************************)
PipelineIdle ==
    /\ image = <<>>
    /\ overflow_checks = FALSE
    /\ file_name = <<>>
    /\ pc = "idle"
    /\ position = 0
    /\ boot_sector = NoBootSector
    /\ fat = <<>>
    /\ root_directory = <<>>
    /\ kernel_entry = 0
    /\ current_cluster = 0
    /\ accumulator = <<>>
    /\ kernel_binary = <<>>
    /\ outcome = "running"
    /\ reads = <<>>
    /\ decoded = <<>>
    /\ clusters = <<>>

\* ---- Fat::get_entry ------------------------------------------------------
\* length of the FAT buffers drawn
FatUnitLen == 4

FatUnitBytes == {0, 18, 52, 165, 248, 255}

RECURSIVE SeqsOfLen(_, _)
SeqsOfLen(S, n) ==
    IF n = 0 THEN {<<>>}
    ELSE {Append(q, x) : q \in SeqsOfLen(S, n - 1), x \in S}

InitFat ==
    /\ PipelineIdle
    /\ u_pc = "call"
    /\ u_out = 0
    /\ u_in \in {r \in [entries : SeqsOfLen(FatUnitBytes, FatUnitLen), cluster : 0..FatUnitLen] :
                    Fat_in_bounds(r.entries, r.cluster)}

CallFatGetEntry ==
    /\ u_pc = "call"
    /\ u_out' = Fat_get_entry(u_in.entries, u_in.cluster)
    /\ u_pc' = "ret"
    /\ UNCHANGED <<u_in, pipeline_vars>>

NextFat == CallFatGetEntry

SpecFat == InitFat /\ [][NextFat]_vars

\* ---- Directory::get_entry ------------------------------------------------
\* most entries a drawn directory holds
MaxDirLen == 3

DirNames == {N_FILE, N_KERNEL, N_END, N_FILE_NUL}

Queries == DirNames \cup { <<>>, <<70, 73, 76, 69>>, <<70, 73, 76, 69, 46, 84, 88, 84>>,
                           N_FILE \o <<32>>, <<70, 73, 76, 69, 32, 32, 32, 84, 88, 84>> }

DirsUpTo(n) ==
    UNION { { [k \in 1..m |-> MkEntry(q[k], k + 1, 0)] : q \in SeqsOfLen(DirNames, m) } : m \in 0..n }

InitDir ==
    /\ PipelineIdle
    /\ u_pc = "call"
    /\ u_out = 0
    /\ u_in \in [entries : DirsUpTo(MaxDirLen), name : Queries]

CallDirectoryGetEntry ==
    /\ u_pc = "call"
    /\ u_out' = Directory_get_entry(u_in.entries, u_in.name)
    /\ u_pc' = "ret"
    /\ UNCHANGED <<u_in, pipeline_vars>>

NextDir == CallDirectoryGetEntry

SpecDir == InitDir /\ [][NextDir]_vars

\* ---- BootSector offsets ---------------------------------------------------
GeometryInputs ==
    [ bytes_per_sector : {0, 64, 512, 4096, 32768},
      sectors_per_cluster : {0, 1, 255},
      reserved_sectors : {0, 1, 16, 128, 65535},
      fat_count : {0, 1, 2, 255},
      root_entries : {0, 224, 65535},
      sectors_per_fat : {0, 1, 9, 128, 65535} ]

InitOffsets ==
    /\ PipelineIdle
    /\ u_pc = "call"
    /\ u_out = 0
    /\ u_in \in [bs : GeometryInputs, checks : BOOLEAN]

\* the four getters of the claim, called in turn; a build with overflow checks
\* panics in the first one that overflows
CallOffsets ==
    /\ u_pc = "call"
    /\ LET bs == u_in.bs IN
       u_out' =
        [ panicked |-> u_in.checks /\ get_root_dir_start_overflows(bs),
          fat_start |-> get_fat_start(bs),
          fat_size |-> get_fat_size(bs),
          root_dir_start |-> get_root_dir_start(bs),
          cluster_region_start |-> get_cluster_region_start(bs),
          cluster_start_2 |-> get_cluster_start(bs, 2) ]
    /\ u_pc' = "ret"
    /\ UNCHANGED <<u_in, pipeline_vars>>

NextOffsets == CallOffsets

SpecOffsets == InitOffsets /\ [][NextOffsets]_vars

(***************************************************************************)
(* C1: for every in-bounds cluster n, Fat::get_entry(n) is the 12-bit      *)
(* value at bit offset n*12 of the buffer read as a little-endian bit      *)
(* string; for even n it is byte[i] | ((byte[i+1] & 0x0F) << 8), for odd n *)
(* (byte[i] >> 4) | (byte[i+1] << 4), i = n*3/2; it lies in 0..0x0FFF.     *)
(***************************************************************************)
BitOf(buf, j) == (buf[j \div 8 + 1] \div Pow2(j % 8)) % 2

RECURSIVE BitsValue(_, _, _)
BitsValue(buf, from, n) ==
    IF n = 0 THEN 0 ELSE BitOf(buf, from) + 2 * BitsValue(buf, from + 1, n - 1)

\* C1: Fat::get_entry(n) is the 12 bits at bit offset n*12, equal to the even / odd
\* byte formulas, and lies in 0..0x0FFF
C1_Entry ==
    u_pc = "ret" =>
        LET b == u_in.entries
            n == u_in.cluster
            i == (n * 3) \div 2
        IN  /\ u_out = BitsValue(b, n * 12, 12)
            /\ u_out \in 0..4095
            /\ n % 2 = 0 => u_out = b[i + 1] + (b[i + 2] % 16) * 256
            /\ n % 2 = 1 => u_out = b[i + 1] \div 16 + b[i + 2] * 16

C1_Witness ==
    /\ u_pc = "ret"
    /\ u_in.cluster = 1
    /\ SubSeq(u_in.entries, 1, 3) = <<52, 18, 165>>
    /\ u_out = 2641

(***************************************************************************)
(* C4: Directory::get_entry(name) returns the first entry, in directory    *)
(* order, among those before the first entry whose name starts with 0x00,  *)
(* whose 11 name bytes equal the query exactly; otherwise None.  A name    *)
(* found only at or after the terminator is not found, and a query of      *)
(* another length never matches.                                           *)
(***************************************************************************)
SameBytes(a, b) == Len(a) = Len(b) /\ \A k \in 1..Len(a) : a[k] = b[k]

LiveEntries(entries) ==
    {k \in 1..Len(entries) : \A j \in 1..k : entries[j].name[1] # 0}

\* C4: the result is the first exact 11-byte match before the terminator, else None
C4_Lookup ==
    u_pc = "ret" =>
        LET M == {k \in LiveEntries(u_in.entries) : SameBytes(u_in.entries[k].name, u_in.name)}
        IN  /\ M = {} => u_out = 0
            /\ M # {} => u_out \in M /\ \A k \in M : u_out <= k
            /\ Len(u_in.name) # 11 => u_out = 0

C4_Witness ==
    /\ u_pc = "ret"
    /\ u_out = 0
    /\ u_in.name = N_FILE
    /\ Len(u_in.entries) = 3
    /\ u_in.entries[1].name = N_KERNEL
    /\ u_in.entries[2].name = N_END
    /\ u_in.entries[3].name = N_FILE

(***************************************************************************)
(* C7: for every boot sector, fatStart = reservedSectors * bytesPerSector, *)
(* fatSize = sectorsPerFat * bytesPerSector and rootDirStart = fatStart +  *)
(* fatSize * fatCount as exact integers, with no 16-bit wraparound and no  *)
(* overflow failure; clusterRegionStart = rootDirStart + rootEntries * 32  *)
(* and clusterStart(2) = clusterRegionStart.                               *)
(***************************************************************************)
C7_ExactOffsets ==
    u_pc = "ret" =>
        LET bs == u_in.bs IN
        /\ ~u_out.panicked
        /\ u_out.fat_start = bs.reserved_sectors * bs.bytes_per_sector
        /\ u_out.fat_size = bs.sectors_per_fat * bs.bytes_per_sector
        /\ u_out.root_dir_start = u_out.fat_start + u_out.fat_size * bs.fat_count
        /\ u_out.cluster_region_start = u_out.root_dir_start + bs.root_entries * 32
        /\ u_out.cluster_start_2 = u_out.cluster_region_start

(***************************************************************************)
(* Vocabulary of the pipeline claims                                       *)
(***************************************************************************)
EndOfChain == 4088

ClusterSize == boot_sector.sectors_per_cluster * boot_sector.bytes_per_sector

\* the spec's clusterStart(n) = clusterRegionStart + clusterSize * (n - 2)
SpecClusterStart(n) == get_cluster_region_start(boot_sector) + ClusterSize * (n - 2)

ClusterReads == {k \in 1..Len(reads) : reads[k].stage = "read_entry_content"}

\* the read of cluster c takes place and succeeds
ClusterReadSucceeds(c) ==
    /\ ~(overflow_checks /\ c < 2)
    /\ get_cluster_start(boot_sector, c) + ClusterSize <= Len(image)

\* the chain from c reaches an end-of-chain value within fuel links, every
\* cluster on it being read successfully and having its entry inside the FAT
RECURSIVE ChainEnds(_, _)
ChainEnds(c, fuel) ==
    /\ fuel > 0
    /\ ClusterReadSucceeds(c)
    /\ (c * 3) \div 2 + 1 < Len(fat)
    /\ \/ BitsValue(fat, c * 12, 12) >= EndOfChain
       \/ ChainEnds(BitsValue(fat, c * 12, 12), fuel - 1)

\* the chain from c comes back to a cluster already visited before any
\* end-of-chain value, every cluster on it being read successfully
RECURSIVE ChainRevisits(_, _)
ChainRevisits(c, seen) ==
    \/ c \in seen
    \/ /\ ClusterReadSucceeds(c)
       /\ (c * 3) \div 2 + 1 < Len(fat)
       /\ BitsValue(fat, c * 12, 12) < EndOfChain
       /\ ChainRevisits(BitsValue(fat, c * 12, 12), seen \cup {c})

InWalk == pc \in {"loop_read", "loop_next"}

FirstCluster == root_directory[kernel_entry].lower_first_cluster

(***************************************************************************)
(* C2: when read_entry_content returns Ok, the result is one cluster_size  *)
(* block per visited cluster, in traversal order (the entry's first        *)
(* cluster, then the FAT successor of each visited cluster), each block    *)
(* the image bytes at clusterStart(cluster); its length is clusterSize *   *)
(* (number of clusters visited), whatever the order of the cluster numbers *)
(* and the entry's file_size.                                              *)
(***************************************************************************)
C2_Content ==
    outcome = "Ok" =>
        /\ Len(clusters) >= 1
        /\ clusters[1] = FirstCluster
        /\ \A k \in 1..(Len(clusters) - 1) :
              (clusters[k] * 3) \div 2 + 1 < Len(fat)
                 => clusters[k + 1] = BitsValue(fat, clusters[k] * 12, 12)
        /\ Len(kernel_binary) = ClusterSize * Len(clusters)
        /\ \A k \in 1..Len(clusters) : \A j \in 1..ClusterSize :
              kernel_binary[(k - 1) * ClusterSize + j] = image[SpecClusterStart(clusters[k]) + j]

C2_Witness ==
    /\ outcome = "Ok"
    /\ clusters = <<3, 2>>
    /\ ClusterSize = 64
    /\ Len(kernel_binary) = 128
    /\ root_directory[kernel_entry].file_size = 0
    /\ kernel_binary[1] = (3 * 16 + 1) % 256
    /\ kernel_binary[65] = (2 * 16 + 1) % 256

(***************************************************************************)
(* C3: with every read succeeding, the walk stops exactly after the first  *)
(* FAT decode that returns a value >= 0x0FF8: no cluster read and no       *)
(* decode follows that value, the walk never returns on a value below      *)
(* 0x0FF8, and when the chain from the start cluster reaches such a value  *)
(* after finitely many links the walk eventually returns.                  *)
(***************************************************************************)
C3_StopsAtEnd ==
    /\ \A k \in 1..Len(decoded) :
          decoded[k] >= EndOfChain
             => /\ k = Len(decoded)
                /\ Cardinality(ClusterReads) = k
                /\ Len(clusters) = k
                /\ outcome = "Ok"
                /\ pc = "exit"
    /\ outcome = "Ok" => Len(decoded) >= 1 /\ decoded[Len(decoded)] >= EndOfChain
    /\ (InWalk /\ Len(decoded) >= 1) => decoded[Len(decoded)] < EndOfChain

C3_Start == pc = "read_entry_content" /\ ChainEnds(FirstCluster, MaxIter)

NoMatchingEntry ==
    {k \in LiveEntries(root_directory) : SameBytes(root_directory[k].name, file_name)} = {}

Loaded ==
    /\ Len(reads) >= 3
    /\ reads[1].stage = "read_boot_sector" /\ reads[1].ok
    /\ reads[2].stage = "read_fat" /\ reads[2].ok
    /\ reads[3].stage = "read_root_directory" /\ reads[3].ok

\* C5: no matching entry ends the run NotFound after the three loads, with no cluster
\* read, no FAT decode and no content
C5_NotFound ==
    /\ (Loaded /\ pc # "get_entry" /\ NoMatchingEntry)
          => /\ outcome = "NotFound"
             /\ pc = "exit"
             /\ Len(reads) = 3
             /\ clusters = <<>>
             /\ decoded = <<>>
             /\ accumulator = <<>>
             /\ kernel_binary = <<>>
    /\ outcome = "NotFound" => Loaded /\ NoMatchingEntry

C5_Witness ==
    /\ outcome = "NotFound"
    /\ file_name = N_FILE
    /\ Len(root_directory) = 2
    /\ root_directory[1].name = N_END
    /\ root_directory[2].name = N_FILE

(***************************************************************************)
(* C6: a read that asks for more bytes than the image holds (boot sector,  *)
(* FAT, root directory, or any cluster of the walk) returns an error; the  *)
(* run aborts there, with no later stage, no retry and no content - not    *)
(* even the clusters accumulated so far.                                   *)
(***************************************************************************)
C6_Truncated ==
    /\ \A k \in 1..Len(reads) :
          reads[k].offset + reads[k].size > Len(image)
             => /\ ~reads[k].ok
                /\ k = Len(reads)
                /\ outcome = "Err"
                /\ pc = "exit"
                /\ kernel_binary = <<>>
    /\ outcome = "Err" => Len(reads) >= 1 /\ ~reads[Len(reads)].ok

C6_Witness ==
    /\ outcome = "Err"
    /\ Len(reads) = 5
    /\ reads[4].ok
    /\ ~reads[5].ok
    /\ Len(accumulator) = 64
    /\ kernel_binary = <<>>

(***************************************************************************)
(* C8: get_cluster_start is never invoked with a cluster number below 2,   *)
(* for every directory entry and every FAT content.                        *)
(***************************************************************************)
C8_NoReservedCluster == \A k \in 1..Len(clusters) : clusters[k] >= 2

(***************************************************************************)
(* C9: every Fat::get_entry(cluster) of the walk has cluster*3/2 and       *)
(* cluster*3/2 + 1 inside the loaded FAT buffer.                           *)
(***************************************************************************)
C9_DecodeInBounds ==
    pc = "loop_next" => (current_cluster * 3) \div 2 + 1 < Len(fat)

(***************************************************************************)
(* C10: no cycle detection, no iteration bound: when the chain revisits a  *)
(* cluster before any value >= 0x0FF8 and every cluster read succeeds,     *)
(* read_entry_content never returns and the accumulated content grows by   *)
(* clusterSize bytes on every iteration, past any number of iterations.    *)
(***************************************************************************)
Cyclic == kernel_entry # 0 /\ ChainRevisits(FirstCluster, {})

C10_NeverReturns == (pc # "read_entry_content" /\ Cyclic) => outcome = "running"

C10_Grows == InWalk /\ Cyclic => Len(accumulator) = ClusterSize * Cardinality(ClusterReads)

C10_KeepsGoing ==
    (pc = "read_entry_content" /\ Cyclic)
        ~> (Len(clusters) = MaxIter /\ Len(accumulator) = ClusterSize * MaxIter
              /\ outcome = "running")

\* C10: on a revisiting chain the walk never returns, holds clusterSize bytes per
\* cluster read, and goes on to any number of iterations
C10_Cycle == [](C10_NeverReturns) /\ [](C10_Grows) /\ C10_KeepsGoing

C10_Witness ==
    /\ outcome = "running"
    /\ clusters = <<2, 3, 2, 3>>
    /\ Len(accumulator) = 4 * 64

====
